---- MODULE Spec2Model ----
(***************************************************************************)
(* A model of mangum's WebSocket support: the adapter's handle_ws          *)
(* (src/mangum/adapter.py), the WebSocket connection object                *)
(* (src/mangum/websockets.py) and its DynamoDB backend                     *)
(* (src/mangum/backends/dynamodb.py).                                      *)
(*                                                                         *)
(* Python values are tagged records, so that a str and the bytes it        *)
(* encodes to, or a tuple and the list with the same items, are different  *)
(* values, as they are for Python's ==.  A dict is the sequence of its     *)
(* <<key, value>> pairs in insertion order, keys being plain strings.      *)
(***************************************************************************)
EXTENDS Integers, Sequences, FiniteSets, TLC

---------------------------------------------------------------------------
(* Bounds of the model.                                                    *)

\* an event carries at most MaxHeaders headers, drawn from HeaderPool
MaxHeaders == 1
\* the application emits at most MaxSends outbound messages in one cycle
MaxSends == 2

---------------------------------------------------------------------------
(* Python values.                                                          *)

PyNone == [t |-> "None"]
PyStr(s) == [t |-> "str", v |-> s]
PyBytes(s) == [t |-> "bytes", v |-> s]
PyInt(n) == [t |-> "int", v |-> n]
PyTuple(items) == [t |-> "tuple", v |-> items]
PyList(items) == [t |-> "list", v |-> items]
PyDict(pairs) == [t |-> "dict", v |-> pairs]

\* bool(x) for the values the code tests: PyNone, "" and empty containers are falsy
Truthy(x) ==
    CASE x.t = "None" -> FALSE
      [] x.t \in {"str", "bytes"} -> x.v # ""
      [] x.t = "int" -> x.v # 0
      [] OTHER -> Len(x.v) > 0

\* k in d
DictHas(d, k) == \E i \in 1..Len(d.v) : d.v[i][1] = k

\* d[k], for a key that is present
DictGet(d, k) == d.v[CHOOSE i \in 1..Len(d.v) : d.v[i][1] = k][2]

\* d.get(k, default)
DictGetOr(d, k, default) == IF DictHas(d, k) THEN DictGet(d, k) ELSE default

\* d[k] = val: a present key keeps its position, a new key goes last
DictSet(d, k, val) ==
    IF DictHas(d, k)
    THEN PyDict([i \in 1..Len(d.v) |->
                 IF d.v[i][1] = k THEN <<k, val>> ELSE d.v[i]])
    ELSE PyDict(Append(d.v, <<k, val>>))

\* str.encode()
Encode(s) == PyBytes(s.v)

---------------------------------------------------------------------------
(* json.dumps and json.loads.  A JSON text is modelled by the document it  *)
(* denotes: JSON has one array type and one string type, so dumps maps     *)
(* tuples and lists to the same array, and loads gives back lists.         *)

RECURSIVE json_dumps(_)
json_dumps(x) ==
    CASE x.t = "None" -> [j |-> "null"]
      [] x.t = "str" -> [j |-> "string", v |-> x.v]
      [] x.t = "int" -> [j |-> "number", v |-> x.v]
      [] x.t \in {"list", "tuple"} ->
            [j |-> "array", v |-> [i \in 1..Len(x.v) |-> json_dumps(x.v[i])]]
      [] x.t = "dict" ->
            [j |-> "object",
             v |-> [i \in 1..Len(x.v) |-> <<x.v[i][1], json_dumps(x.v[i][2])>>]]

RECURSIVE json_loads(_)
json_loads(d) ==
    CASE d.j = "null" -> PyNone
      [] d.j = "string" -> PyStr(d.v)
      [] d.j = "number" -> PyInt(d.v)
      [] d.j = "array" -> PyList([i \in 1..Len(d.v) |-> json_loads(d.v[i])])
      [] d.j = "object" ->
            PyDict([i \in 1..Len(d.v) |-> <<d.v[i][1], json_loads(d.v[i][2])>>])

---------------------------------------------------------------------------
(* Events.  The header names and values an event may carry, and the        *)
(* string functions of Python the code applies to them, tabulated over     *)
(* these strings.                                                          *)

HeaderPool == << <<"Host", "h:81">>, <<"X-Forwarded-Proto", "ws">> >>

\* str.lower()
Lower(s) ==
    CASE s = "Host" -> "host"
      [] s = "X-Forwarded-Proto" -> "x-forwarded-proto"
      [] OTHER -> s

\* ":" in s
HasColon(s) == s \in {"h:81"}

\* s.split(":")
SplitColon(s) == CASE s = "h:81" -> <<"h", "81">> [] OTHER -> <<s>>

\* int(x) of a str of digits, or of an int
ToInt(x) == IF x.t = "int" THEN x.v ELSE CASE x.v = "81" -> 81 [] x.v = "80" -> 80

ConnIds == {"abc", "xyz"}

\* the header mappings of the events: up to MaxHeaders distinct entries of the
\* pool in any order, or no headers at all (PyNone)
HeaderSeqs ==
    UNION {{s \in [1..n -> 1..Len(HeaderPool)] :
              \A i, k \in 1..n : i # k => s[i] # s[k]} :
           n \in 0..(IF MaxHeaders < Len(HeaderPool) THEN MaxHeaders ELSE Len(HeaderPool))}

EventHeaders ==
    {PyNone} \cup
    {PyDict([i \in 1..Len(s) |-> <<HeaderPool[s[i]][1], PyStr(HeaderPool[s[i]][2])>>]) :
       s \in HeaderSeqs}

SourceIps == {PyStr("10.0.0.1")}

Bodies == {"ping"}

---------------------------------------------------------------------------
(* The adapter's scope construction for a CONNECT event.                   *)

\* {k.lower(): v for k, v in event.get("headers").items()} if
\* event.get("headers") else {}: a later entry with the same lower-cased name
\* replaces the value of the earlier one, in the earlier one's position
RECURSIVE LowerKeys(_, _, _)
LowerKeys(pairs, i, acc) ==
    IF i > Len(pairs) THEN acc
    ELSE LowerKeys(pairs, i + 1, DictSet(acc, Lower(pairs[i][1]), pairs[i][2]))

lower_headers(event) ==
    IF Truthy(event.headers) THEN LowerKeys(event.headers.v, 1, PyDict(<<>>))
    ELSE PyDict(<<>>)

get_server(headers) ==
    LET server_name == DictGetOr(headers, "host", PyStr("mangum"))
        parts == SplitColon(server_name.v)
    IN  IF ~HasColon(server_name.v)
        THEN PyTuple(<<server_name,
                       PyInt(ToInt(DictGetOr(headers, "x-forwarded-port", PyInt(80))))>>)
        ELSE PyTuple(<<PyStr(parts[1]), PyInt(ToInt(PyStr(parts[2])))>>)

\* the event as the Python mapping the scope's "aws" entry holds
event_value(event) ==
    PyDict(<< <<"requestContext",
                PyDict(<< <<"eventType", PyStr(event.eventType)>>,
                          <<"connectionId", PyStr(event.connectionId)>>,
                          <<"identity", PyDict(<< <<"sourceIp", event.sourceIp>> >>)>> >>)>>,
              <<"headers", event.headers>> >>)

initial_scope(app_ws_path, event) ==
    LET headers == lower_headers(event)
    IN  PyDict(<< <<"type", PyStr("websocket")>>,
                  <<"path", IF Truthy(app_ws_path) THEN app_ws_path ELSE PyStr("/")>>,
                  <<"headers", headers>>,
                  <<"raw_path", PyNone>>,
                  <<"root_path", PyStr("")>>,
                  <<"scheme", DictGetOr(headers, "x-forwarded-proto", PyStr("wss"))>>,
                  <<"query_string", PyStr("")>>,
                  <<"server", get_server(headers)>>,
                  <<"client", PyTuple(<<event.sourceIp, PyInt(0)>>)>>,
                  <<"aws", PyDict(<< <<"event", event_value(event)>>,
                                     <<"context", PyNone>> >>)>> >>)

---------------------------------------------------------------------------
(* DynamoDBBackend.  The table is a function from the connectionId keys    *)
(* present to their items.  An operation's result is a record: exc is the  *)
(* exception it raises ("none" when it returns), table the table after it. *)

NoException == "none"

\* DynamoDBBackend.__post_init__: region_name and table_name are PyNone or a
\* PyStr, aws_region is the AWS_REGION environment variable (PyNone when unset),
\* table_exists says whether describe_table finds the table
DynamoDBBackend_post_init(table_name, region_name, aws_region, table_exists) ==
    IF ~Truthy(region_name) /\ aws_region = PyNone THEN "KeyError"
    ELSE IF table_name = PyNone THEN "ParamValidationError"
    ELSE IF ~table_exists THEN "WebSocketError"
    ELSE NoException

\* put_item without its ConditionExpression: the item is written over
DynamoDBBackend_create_overwrite(table, connection_id, scope_json) ==
    [exc |-> NoException,
     table |-> [c \in DOMAIN table \cup {connection_id} |->
                  IF c = connection_id
                  THEN [connectionId |-> connection_id, initial_scope |-> scope_json]
                  ELSE table[c]]]

DynamoDBBackend_create(table, connection_id, scope_json) ==
    IF connection_id \in DOMAIN table
    THEN [exc |-> "ClientError", table |-> table]
    ELSE [exc |-> NoException,
          table |-> [c \in DOMAIN table \cup {connection_id} |->
                       IF c = connection_id
                       THEN [connectionId |-> connection_id, initial_scope |-> scope_json]
                       ELSE table[c]]]

\* a fetch that answers a missing item with an empty scope
DynamoDBBackend_fetch_empty(table, connection_id) ==
    IF connection_id \in DOMAIN table
    THEN [exc |-> NoException, table |-> table,
          initial_scope |-> table[connection_id].initial_scope]
    ELSE [exc |-> NoException, table |-> table,
          initial_scope |-> json_dumps(PyDict(<< <<"headers", PyDict(<< >>)>>,
                                                 <<"query_string", PyStr("")>> >>))]

\* a fetch without the except KeyError
DynamoDBBackend_fetch_KeyError(table, connection_id) ==
    IF connection_id \in DOMAIN table
    THEN [exc |-> NoException, table |-> table,
          initial_scope |-> table[connection_id].initial_scope]
    ELSE [exc |-> "KeyError", table |-> table, initial_scope |-> [j |-> "null"]]

\* a fetch that takes the item out of the table as it reads it
DynamoDBBackend_fetch_pop(table, connection_id) ==
    IF connection_id \in DOMAIN table
    THEN [exc |-> NoException,
          table |-> [c \in DOMAIN table \ {connection_id} |-> table[c]],
          initial_scope |-> table[connection_id].initial_scope]
    ELSE [exc |-> "WebSocketError", table |-> table, initial_scope |-> [j |-> "null"]]

\* DynamoDBBackend.fetch: get_item reads the item and leaves the table as it is

DynamoDBBackend_fetch(table, connection_id) ==
    IF connection_id \in DOMAIN table
    THEN [exc |-> NoException, table |-> table,
          initial_scope |-> table[connection_id].initial_scope]
    ELSE [exc |-> "WebSocketError", table |-> table, initial_scope |-> [j |-> "null"]]

\* a delete that empties the table
DynamoDBBackend_delete_all(table, connection_id) == [exc |-> NoException, table |-> << >>]

\* a delete_item that removes nothing
DynamoDBBackend_delete_none(table, connection_id) == [exc |-> NoException, table |-> table]

\* a delete_item conditioned on the item existing
DynamoDBBackend_delete_strict(table, connection_id) ==
    [exc |-> IF connection_id \in DOMAIN table THEN NoException ELSE "ClientError",
     table |-> [c \in DOMAIN table \ {connection_id} |-> table[c]]]

DynamoDBBackend_delete(table, connection_id) ==
    [exc |-> NoException,
     table |-> [c \in DOMAIN table \ {connection_id} |-> table[c]]]

---------------------------------------------------------------------------
(* WebSocket (src/mangum/websockets.py).                                   *)

\* the backend tags a ws_config may carry
BackendTags == {"dynamodb", "sqlite3", "redis", ""}

NoBackend == "unset"

\* WebSocket.__post_init__.  ws_config is [isNone, backend, table_name,
\* region_name]; the result is the exception raised and the value of
\* self._backend when the constructor ends.  The two tests of the tag are
\* separate if statements, and the else belongs to the second.
WebSocket_post_init(ws_config, aws_region, table_exists) ==
    IF ws_config.isNone THEN [exc |-> "WebSocketError", backend |-> NoBackend]
    ELSE LET backend == ws_config.backend
             first == IF backend = "sqlite3" THEN "SQLite3Backend" ELSE NoBackend
         IN  IF backend = "dynamodb"
             THEN LET e == DynamoDBBackend_post_init(ws_config.table_name,
                                ws_config.region_name, aws_region, table_exists)
                  IN  [exc |-> e,
                       backend |-> IF e = NoException THEN "DynamoDBBackend" ELSE first]
             ELSE [exc |-> "WebSocketError", backend |-> first]

WebSocket_create(table, connection_id, scope) ==
    DynamoDBBackend_create(table, connection_id, json_dumps(scope))

\* a fetch that hands back the decoded JSON as it is
WebSocket_fetch_raw(table, connection_id) ==
    LET r == DynamoDBBackend_fetch(table, connection_id)
    IN  IF r.exc # NoException THEN [exc |-> r.exc, table |-> r.table, scope |-> PyNone]
        ELSE [exc |-> NoException, table |-> r.table, scope |-> json_loads(r.initial_scope)]

\* WebSocket.fetch: the result's scope is self.scope, PyNone when fetch raised
\* before setting it
WebSocket_fetch(table, connection_id) ==
    LET r == DynamoDBBackend_fetch(table, connection_id)
        scope == json_loads(r.initial_scope)
        query_string == DictGet(scope, "query_string")
        stored == DictGet(scope, "headers")
        headers == IF Truthy(stored)
                   THEN PyList([i \in 1..Len(stored.v) |->
                                  PyList(<<PyBytes(stored.v[i][1]), Encode(stored.v[i][2])>>)])
                   ELSE stored
    IN  IF r.exc # NoException THEN [exc |-> r.exc, table |-> r.table, scope |-> PyNone]
        ELSE [exc |-> NoException,
              table |-> r.table,
              scope |-> DictSet(DictSet(scope, "headers", headers),
                                "query_string", Encode(query_string))]

WebSocket_delete(table, connection_id) == DynamoDBBackend_delete(table, connection_id)

\* the HTTP status by which the management API says the connection is gone
StatusGone == 410

\* what apigw_client.post_to_connection may do: return, raise a ClientError
\* whose response carries an HTTP status (0: no status in the response), or
\* raise an error that is no ClientError
TransportOutcomes ==
    {[exc |-> NoException, status |-> 200],
     [exc |-> "ClientError", status |-> StatusGone],
     [exc |-> "ClientError", status |-> 403],
     [exc |-> "EndpointConnectionError", status |-> 0]}

\* the one call post_to_connection makes to the management API
ApiCall(connection_id, msg_data) == << [ConnectionId |-> connection_id, Data |-> msg_data] >>

\* a relay that forgets the stored scope of a connection that is gone
WebSocket_post_to_connection_keep(table, connection_id, msg_data, outcome) ==
    LET calls == ApiCall(connection_id, msg_data)
    IN  IF outcome.exc = NoException
        THEN [exc |-> NoException, table |-> table, calls |-> calls]
        ELSE IF outcome.exc = "ClientError"
        THEN IF outcome.status = StatusGone
             THEN [exc |-> NoException, table |-> table, calls |-> calls]
             ELSE [exc |-> "WebSocketError", table |-> table, calls |-> calls]
        ELSE [exc |-> outcome.exc, table |-> table, calls |-> calls]

\* a relay that treats every ClientError as the connection being gone
WebSocket_post_to_connection_swallow(table, connection_id, msg_data, outcome) ==
    LET calls == ApiCall(connection_id, msg_data)
        d == WebSocket_delete(table, connection_id)
    IN  IF outcome.exc = NoException
        THEN [exc |-> NoException, table |-> table, calls |-> calls]
        ELSE IF outcome.exc = "ClientError"
        THEN [exc |-> d.exc, table |-> d.table, calls |-> calls]
        ELSE [exc |-> outcome.exc, table |-> table, calls |-> calls]

\* a relay that raises for a gone connection as for any other ClientError
WebSocket_post_to_connection_raise(table, connection_id, msg_data, outcome) ==
    LET calls == ApiCall(connection_id, msg_data)
    IN  IF outcome.exc = NoException
        THEN [exc |-> NoException, table |-> table, calls |-> calls]
        ELSE IF outcome.exc = "ClientError"
        THEN [exc |-> "WebSocketError", table |-> table, calls |-> calls]
        ELSE [exc |-> outcome.exc, table |-> table, calls |-> calls]

\* a relay that posts the message again when the first post succeeded
WebSocket_post_to_connection_twice(table, connection_id, msg_data, outcome) ==
    LET calls == ApiCall(connection_id, msg_data)
        d == WebSocket_delete(table, connection_id)
    IN  IF outcome.exc = NoException
        THEN [exc |-> NoException, table |-> table, calls |-> calls \o calls]
        ELSE IF outcome.exc = "ClientError"
        THEN IF outcome.status = StatusGone
             THEN [exc |-> d.exc, table |-> d.table, calls |-> calls]
             ELSE [exc |-> "WebSocketError", table |-> table, calls |-> calls]
        ELSE [exc |-> outcome.exc, table |-> table, calls |-> calls]

\* WebSocket.post_to_connection: outcome is what the one call to the
\* management API does; calls are the calls made
WebSocket_post_to_connection(table, connection_id, msg_data, outcome) ==
    LET calls == ApiCall(connection_id, msg_data)
        d == WebSocket_delete(table, connection_id)
    IN  IF outcome.exc = NoException
        THEN [exc |-> NoException, table |-> table, calls |-> calls]
        ELSE IF outcome.exc = "ClientError"
        THEN IF outcome.status = StatusGone
             THEN [exc |-> d.exc, table |-> d.table, calls |-> calls]
             ELSE [exc |-> "WebSocketError", table |-> table, calls |-> calls]
        ELSE [exc |-> outcome.exc, table |-> table, calls |-> calls]

---------------------------------------------------------------------------
(* The connection object handle_ws builds.  handle_ws imports WebSocket    *)
(* from mangum.connections and calls accept, connect and disconnect on it; *)
(* they are the establish, resume and terminate of the connection facade:  *)
(* a store bound once at construction from the adapter's dynamodb_*        *)
(* settings, and create, fetch and delete on it.                           *)

connections_WebSocket(mangum, env) ==
    WebSocket_post_init([isNone |-> FALSE, backend |-> "dynamodb",
                         table_name |-> mangum.dynamodb_table_name,
                         region_name |-> mangum.dynamodb_region],
                        env.AWS_REGION, env.table_exists)

accept(table, connection_id, scope) == WebSocket_create(table, connection_id, scope)

connect(table, connection_id) == WebSocket_fetch(table, connection_id)

disconnect(table, connection_id) == WebSocket_delete(table, connection_id)

---------------------------------------------------------------------------
(* Mangum.handle_ws.                                                       *)

\* an invocation's result: the exception it raises ("none" when it returns)
\* and the statusCode of the response it returns (0 while there is none)
NoResponse == [raised |-> NoException, statusCode |-> 0]
Returns(status) == [raised |-> NoException, statusCode |-> status]
Raises(exc) == [raised |-> exc, statusCode |-> 0]

NoTransport == [exc |-> NoException, status |-> 0]
NoOp == [op |-> "none", connection_id |-> "", exc |-> NoException, transport |-> NoTransport]
Op(name, connection_id, exc) ==
    [op |-> name, connection_id |-> connection_id, exc |-> exc, transport |-> NoTransport]

\* lines 155-160: not any([dynamodb_region, dynamodb_table_name])
ConfigMissing(mangum, env) ==
    LET dynamodb_region == IF Truthy(mangum.dynamodb_region)
                           THEN mangum.dynamodb_region ELSE env.AWS_REGION
    IN  ~(Truthy(dynamodb_region) \/ Truthy(mangum.dynamodb_table_name))

\* the settings pass the check of lines 155-160 and the store can be opened
Configured(mangum, env) ==
    ~ConfigMissing(mangum, env) /\ connections_WebSocket(mangum, env).exc = NoException

\* except WebSocketError: the one exception the CONNECT and MESSAGE branches catch
Caught(exc) == exc = "WebSocketError"

\* the result of a try block that raised exc
AfterTry(exc) == IF Caught(exc) THEN Returns(500) ELSE Raises(exc)

\* the CONNECT branch: the response, the table afterwards and the store
\* operation performed
handle_ws_CONNECT(mangum, env, table, event) ==
    LET scope == initial_scope(mangum.app_ws_path, event)
        websocket == connections_WebSocket(mangum, env)
        r == accept(table, event.connectionId, scope)
    IN  IF ConfigMissing(mangum, env)
        THEN [response |-> Raises("WebSocketError"), table |-> table, op |-> NoOp]
        ELSE IF websocket.exc # NoException
        THEN [response |-> AfterTry(websocket.exc), table |-> table, op |-> NoOp]
        ELSE [response |-> IF r.exc = NoException THEN Returns(200) ELSE AfterTry(r.exc),
              table |-> r.table,
              op |-> Op("create", event.connectionId, r.exc)]

\* the DISCONNECT branch: no try around the construction or the disconnect
handle_ws_DISCONNECT(mangum, env, table, event) ==
    LET websocket == connections_WebSocket(mangum, env)
        r == disconnect(table, event.connectionId)
    IN  IF ConfigMissing(mangum, env)
        THEN [response |-> Raises("WebSocketError"), table |-> table, op |-> NoOp]
        ELSE IF websocket.exc # NoException
        THEN [response |-> Raises(websocket.exc), table |-> table, op |-> NoOp]
        ELSE [response |-> IF r.exc = NoException THEN Returns(200) ELSE Raises(r.exc),
              table |-> r.table,
              op |-> Op("delete", event.connectionId, r.exc)]

\* a MESSAGE branch that builds and runs the cycle whatever the try did
handle_ws_MESSAGE_always(mangum, env, table, event) ==
    LET r == connect(table, event.connectionId)
    IN  [response |-> NoResponse, started |-> TRUE, scope |-> r.scope, table |-> r.table,
         op |-> Op("fetch", event.connectionId, r.exc)]

\* the MESSAGE branch up to the else of its try: started says whether the
\* cycle is built and run, scope is the scope connect() restored
handle_ws_MESSAGE(mangum, env, table, event) ==
    LET websocket == connections_WebSocket(mangum, env)
        r == connect(table, event.connectionId)
    IN  IF ConfigMissing(mangum, env)
        THEN [response |-> Raises("WebSocketError"), started |-> FALSE,
              scope |-> PyNone, table |-> table, op |-> NoOp]
        ELSE IF websocket.exc # NoException
        THEN [response |-> AfterTry(websocket.exc), started |-> FALSE,
              scope |-> PyNone, table |-> table, op |-> NoOp]
        ELSE [response |-> IF r.exc = NoException THEN NoResponse ELSE AfterTry(r.exc),
              started |-> r.exc = NoException,
              scope |-> r.scope,
              table |-> r.table,
              op |-> Op("fetch", event.connectionId, r.exc)]

\* the two messages put on the queue the other way round
inbound_messages_swapped(app_ws_path, event) ==
    << [type |-> "websocket.receive",
        path |-> IF Truthy(app_ws_path) THEN app_ws_path ELSE PyStr("/"),
        text |-> event.body],
       [type |-> "websocket.connect", path |-> PyNone, text |-> ""] >>

\* the two messages handle_ws puts on the cycle's queue before running the app
inbound_messages(app_ws_path, event) ==
    << [type |-> "websocket.connect", path |-> PyNone, text |-> ""],
       [type |-> "websocket.receive",
        path |-> IF Truthy(app_ws_path) THEN app_ws_path ELSE PyStr("/"),
        text |-> event.body] >>

---------------------------------------------------------------------------
(* State.                                                                  *)

VARIABLES
    mangum,     \* the adapter's settings: dynamodb_region, dynamodb_table_name, app_ws_path
    env,        \* AWS_REGION and whether the DynamoDB table exists
    table,      \* the DynamoDB table: connectionId -> item
    pc,         \* "idle" between invocations, "cycle" while the application runs
    event,      \* the event of the current (or last) invocation
    response,   \* what the current (or last) invocation returned or raised
    scope,      \* the scope the current invocation's connect() restored
    queue,      \* the cycle's inbound messages not yet received
    received,   \* the messages the application received, in order
    emitted,    \* the data the application sent, in order
    relayLog,   \* the calls made to the management API, in order
    appRan,     \* whether the current invocation ran the application
    lastOp,     \* the last store or relay operation of the invocation
    prePresent, \* whether the event's connection id had an item when the invocation began
    phase,      \* per connection id, "ABSENT" or "OPEN" by the events so far
    created,    \* per connection id, the scope given to the create of its item
    ws_config,  \* the ws_config a WebSocket is constructed with
    built,      \* the result of that construction
    http,       \* the HTTP cycle of the current (or last) HTTP invocation
    procs,      \* the invocations that run concurrently, each with its position
    removed     \* per connection id, the scope of the item last removed for it

vars == <<mangum, env, table, pc, event, response, scope, queue, received, emitted,
          relayLog, appRan, lastOp, prePresent, phase, created, ws_config, built,
          http, procs, removed>>

Settings == {PyNone, PyStr("set")}

NoEvent == [eventType |-> "none", connectionId |-> "", headers |-> PyNone,
            sourceIp |-> PyNone, body |-> ""]

ConnectEvents ==
    {[eventType |-> "CONNECT", connectionId |-> c, headers |-> h, sourceIp |-> ip,
      body |-> ""] : c \in ConnIds, h \in EventHeaders, ip \in SourceIps}

MessageEvents ==
    {[eventType |-> "MESSAGE", connectionId |-> c, headers |-> PyNone,
      sourceIp |-> PyNone, body |-> b] : c \in ConnIds, b \in Bodies}

DisconnectEvents ==
    {[eventType |-> "DISCONNECT", connectionId |-> c, headers |-> PyNone,
      sourceIp |-> PyNone, body |-> ""] : c \in ConnIds}

\* the data of the k-th message the application sends
Payload(k) == IF k % 2 = 1 THEN "pong" ELSE "bye"

\* the HTTP cycle before any HTTP invocation: its state, its event, the status
\* and headers of the response start, the body collected, the messages the application
\* sent, and the result of the cycle
NoResult == [status |-> 0, headers |-> << >>, body |-> << >>, error |-> FALSE]
NoHttp == [state |-> "NONE", event |-> PyNone, status |-> 0, headers |-> << >>,
           body |-> << >>, sent |-> << >>, result |-> NoResult]

NoConfig == [isNone |-> TRUE, backend |-> "", table_name |-> PyNone, region_name |-> PyNone]
NotBuilt == [exc |-> NoException, backend |-> NoBackend, done |-> FALSE]

InitStore ==
    /\ table = << >>
    /\ pc = "idle"
    /\ event = NoEvent
    /\ response = NoResponse
    /\ scope = PyNone
    /\ queue = << >>
    /\ received = << >>
    /\ emitted = << >>
    /\ relayLog = << >>
    /\ appRan = FALSE
    /\ lastOp = NoOp
    /\ prePresent = FALSE
    /\ phase = [c \in ConnIds |-> "ABSENT"]
    /\ created = [c \in ConnIds |-> PyNone]
    /\ built = NotBuilt
    /\ http = NoHttp
    /\ procs = << >>
    /\ removed = [c \in ConnIds |-> PyNone]

\* The settings sampled: each of dynamodb_region, dynamodb_table_name and
\* AWS_REGION given or not, the table existing or not.  app_ws_path is given
\* with dynamodb_region, and AWS_REGION only without it (with both given the
\* code reads dynamodb_region alone).
Init ==
    /\ mangum \in {[dynamodb_region |-> r, dynamodb_table_name |-> n,
                    app_ws_path |-> IF r = PyNone THEN PyNone ELSE PyStr("/ws")] :
                     r \in Settings, n \in Settings}
    /\ env \in {e \in [AWS_REGION : Settings, table_exists : BOOLEAN] :
                  Truthy(mangum.dynamodb_region) => e.AWS_REGION = PyNone}
    /\ ws_config = NoConfig
    /\ InitStore

---------------------------------------------------------------------------
(* Invocations.                                                            *)

\* what beginning an invocation resets
Begin(e) ==
    /\ pc = "idle"
    /\ event' = e
    /\ prePresent' = (e.connectionId \in DOMAIN table)
    /\ received' = << >>
    /\ emitted' = << >>
    /\ relayLog' = << >>
    /\ UNCHANGED <<mangum, env, ws_config, built>>

Connect(e) ==
    LET r == handle_ws_CONNECT(mangum, env, table, e)
        ok == r.op.op = "create" /\ r.op.exc = NoException
        c == e.connectionId
    IN  /\ Begin(e)
        /\ response' = r.response
        /\ table' = r.table
        /\ lastOp' = r.op
        /\ scope' = PyNone
        /\ queue' = << >>
        /\ appRan' = FALSE
        /\ pc' = "idle"
        /\ phase' = IF r.response = Returns(200) THEN [phase EXCEPT ![c] = "OPEN"] ELSE phase
        /\ created' = IF ok THEN [created EXCEPT ![c] = initial_scope(mangum.app_ws_path, e)]
                      ELSE created

Disconnect(e) ==
    LET r == handle_ws_DISCONNECT(mangum, env, table, e)
    IN  /\ Begin(e)
        /\ response' = r.response
        /\ table' = r.table
        /\ lastOp' = r.op
        /\ scope' = PyNone
        /\ queue' = << >>
        /\ appRan' = FALSE
        /\ pc' = "idle"
        /\ phase' = [phase EXCEPT ![e.connectionId] = "ABSENT"]
        /\ created' = IF r.op.op = "delete" /\ r.op.exc = NoException
                      THEN [created EXCEPT ![e.connectionId] = PyNone] ELSE created

\* a MESSAGE invocation up to the start of its cycle
Message(e) ==
    LET r == handle_ws_MESSAGE(mangum, env, table, e)
    IN  /\ Begin(e)
        /\ response' = r.response
        /\ lastOp' = r.op
        /\ scope' = r.scope
        /\ appRan' = r.started
        /\ pc' = IF r.started THEN "cycle" ELSE "idle"
        /\ queue' = IF r.started THEN inbound_messages(mangum.app_ws_path, e) ELSE << >>
        /\ table' = r.table
        /\ UNCHANGED <<phase, created>>

---------------------------------------------------------------------------
(* The WebSocket cycle of a MESSAGE invocation: the application receives   *)
(* from the queue, and each message it sends is relayed at once by         *)
(* post_to_connection.  A relay that raises aborts the cycle, and the      *)
(* invocation answers with a server error; otherwise it answers 200 when   *)
(* the application is done.                                                *)

CycleStep ==
    /\ pc = "cycle"
    /\ UNCHANGED <<mangum, env, event, scope, appRan, prePresent, ws_config, built>>

\* the transport answered that the connection is gone
Gone(outcome) == outcome.exc = "ClientError" /\ outcome.status = StatusGone

AppReceive ==
    /\ CycleStep
    /\ queue # << >>
    /\ received' = Append(received, Head(queue))
    /\ queue' = Tail(queue)
    /\ UNCHANGED <<table, pc, response, emitted, relayLog, lastOp, phase, created>>

AppSend(outcome) ==
    LET c == event.connectionId
        data == Payload(Len(emitted) + 1)
        r == WebSocket_post_to_connection(table, c, data, outcome)
    IN  /\ CycleStep
        /\ Len(emitted) < MaxSends
        /\ emitted' = Append(emitted, data)
        /\ relayLog' = relayLog \o [i \in 1..Len(r.calls) |->
                                       [connection_id |-> r.calls[i].ConnectionId,
                                        data |-> r.calls[i].Data,
                                        transport |-> outcome]]
        /\ lastOp' = [op |-> "post_to_connection", connection_id |-> c,
                      exc |-> r.exc, transport |-> outcome]
        /\ table' = r.table
        /\ phase' = IF Gone(outcome) THEN [phase EXCEPT ![c] = "ABSENT"] ELSE phase
        /\ created' = IF Gone(outcome) THEN [created EXCEPT ![c] = PyNone] ELSE created
        /\ pc' = IF r.exc = NoException THEN "cycle" ELSE "idle"
        /\ response' = IF r.exc = NoException THEN NoResponse ELSE Returns(500)
        /\ UNCHANGED <<queue, received>>

AppDone ==
    /\ CycleStep
    /\ pc' = "idle"
    /\ response' = Returns(200)
    /\ UNCHANGED <<table, queue, received, emitted, relayLog, lastOp, phase, created>>

\* the WebSocket invocations one at a time, without history of removals
Alone == UNCHANGED <<http, procs, removed>>

Next ==
    \/ \E e \in ConnectEvents : Connect(e) /\ Alone
    \/ \E e \in MessageEvents : Message(e) /\ Alone
    \/ \E e \in DisconnectEvents : Disconnect(e) /\ Alone
    \/ AppReceive /\ Alone
    \/ \E outcome \in TransportOutcomes : AppSend(outcome) /\ Alone
    \/ AppDone /\ Alone

Spec == Init /\ [][Next]_vars

---------------------------------------------------------------------------
(* The HTTP path: handle_http puts the one request message on the cycle's  *)
(* queue and runs the application in an HTTPCycle.  The cycle collects the *)
(* response start and the body chunks the application sends.  A body is a  *)
(* sequence of bytes, so that chunks concatenate.                          *)

\* the most body chunks the application sends in one response
MaxChunks == 2

\* base64.b64decode on the bodies sampled
b64decode(body) ==
    CASE body.v = "aGk=" -> PyBytes("hi")
      [] body.v = "" -> PyBytes("")

\* the HTTP events: the body and whether it is base64 encoded
HttpEvents ==
    { [body |-> PyNone, isBase64Encoded |-> FALSE],
      [body |-> PyNone, isBase64Encoded |-> TRUE],
      [body |-> PyStr("hi"), isBase64Encoded |-> FALSE],
      [body |-> PyStr("aGk="), isBase64Encoded |-> FALSE],
      [body |-> PyStr("aGk="), isBase64Encoded |-> TRUE] }

\* the body handle_http computes from the event
handle_http_body(e) ==
    LET body == IF Truthy(e.body) THEN e.body ELSE PyBytes("")
    IN  IF e.isBase64Encoded THEN b64decode(body)
        ELSE IF body.t # "bytes" THEN Encode(body)
        ELSE body

\* the one message handle_http puts on the cycle's queue before running the app
http_request_messages(e) ==
    << [type |-> "http.request", body |-> handle_http_body(e), more_body |-> FALSE] >>

\* what the application may send: statuses, header lists, body chunks
Statuses == {200, 404}
ResponseHeaders == { << >>, << <<"content-type", "text/plain">> >> }
Chunks == { <<"o", "k">>, <<"!">> }

\* the cycle of an HTTP invocation as it starts
NewHttp(e) == [NoHttp EXCEPT !.state = "REQUEST", !.event = e]

HTTPCycle_append_front(body, chunk) == chunk \o body

\* the body collected so far with one more chunk
HTTPCycle_append(body, chunk) == body \o chunk

\* the result of a cycle that ended in failure: a generic server error
HTTPCycle_failure == [status |-> 500, headers |-> << >>, body |-> << >>, error |-> TRUE]

\* the response start: its status and headers are captured
HTTPCycle_start(h, status, headers) ==
    [h EXCEPT !.state = "RESPONSE", !.status = status, !.headers = headers,
              !.sent = Append(@, [type |-> "http.response.start", status |-> status,
                                  headers |-> headers])]

\* a body chunk: it is appended, and one with more_body false ends the cycle
\* with the result collected
HTTPCycle_body(h, chunk, more_body) ==
    LET body == HTTPCycle_append(h.body, chunk)
    IN  [h EXCEPT !.body = body,
                  !.state = IF more_body THEN "RESPONSE" ELSE "COMPLETE",
                  !.sent = Append(@, [type |-> "http.response.body", body |-> chunk,
                                      more_body |-> more_body]),
                  !.result = IF more_body THEN @
                             ELSE [status |-> h.status, headers |-> h.headers,
                                   body |-> body, error |-> FALSE]]

\* the application completed before a terminal chunk: without a response start
\* that is a protocol error, otherwise the result is what was collected
HTTPCycle_completed(h) ==
    [h EXCEPT !.state = "DONE",
              !.result = IF h.state = "REQUEST" THEN HTTPCycle_failure
                         ELSE [status |-> h.status, headers |-> h.headers,
                               body |-> h.body, error |-> FALSE]]

\* the application raised: the cycle answers with the generic failure
HTTPCycle_raised(h) == [h EXCEPT !.state = "FAILED", !.result = HTTPCycle_failure]

\* the number of body chunks the application has sent
ChunksSent(h) == Cardinality({i \in 1..Len(h.sent) : h.sent[i].type = "http.response.body"})

\* an HTTP invocation up to the start of its cycle
HttpRequest(e) ==
    /\ pc = "idle"
    /\ http' = NewHttp(e)
    /\ queue' = http_request_messages(e)
    /\ pc' = "http"
    /\ event' = NoEvent
    /\ response' = NoResponse
    /\ scope' = PyNone
    /\ received' = << >>
    /\ emitted' = << >>
    /\ relayLog' = << >>
    /\ appRan' = TRUE
    /\ lastOp' = NoOp
    /\ prePresent' = FALSE
    /\ UNCHANGED <<mangum, env, table, phase, created, ws_config, built, procs, removed>>

HttpStep ==
    /\ pc = "http"
    /\ UNCHANGED <<mangum, env, table, event, scope, emitted, relayLog, appRan, lastOp,
                   prePresent, phase, created, ws_config, built, procs, removed>>

\* the invocation returns the result of the cycle
HttpReturn(h) ==
    /\ http' = h
    /\ pc' = "idle"
    /\ response' = Returns(h.result.status)
    /\ UNCHANGED <<queue, received>>

HttpReceive ==
    /\ HttpStep
    /\ queue # << >>
    /\ received' = Append(received, Head(queue))
    /\ queue' = Tail(queue)
    /\ UNCHANGED <<pc, response, http>>

HttpSendStart(status, headers) ==
    /\ HttpStep
    /\ http.state = "REQUEST"
    /\ http' = HTTPCycle_start(http, status, headers)
    /\ UNCHANGED <<pc, response, queue, received>>

HttpSendBody(chunk, more_body) ==
    /\ HttpStep
    /\ http.state = "RESPONSE"
    /\ ChunksSent(http) < MaxChunks
    /\ IF more_body
       THEN /\ http' = HTTPCycle_body(http, chunk, more_body)
            /\ UNCHANGED <<pc, response, queue, received>>
       ELSE HttpReturn(HTTPCycle_body(http, chunk, more_body))

HttpAppDone ==
    /\ HttpStep
    /\ HttpReturn(HTTPCycle_completed(http))

HttpAppRaise ==
    /\ HttpStep
    /\ HttpReturn(HTTPCycle_raised(http))

\* a MESSAGE invocation, which leaves no HTTP cycle behind
WsMessage(e) == Message(e) /\ http' = NoHttp /\ UNCHANGED <<procs, removed>>

\* One adapter serving HTTP events and the MESSAGE events of WebSocket
\* connections, "abc" having connected before.
InitCycle ==
    /\ mangum = [dynamodb_region |-> PyStr("set"), dynamodb_table_name |-> PyStr("set"),
                 app_ws_path |-> PyStr("/ws")]
    /\ env = [AWS_REGION |-> PyNone, table_exists |-> TRUE]
    /\ ws_config = NoConfig
    /\ \E e \in ConnectEvents :
          /\ e.connectionId = "abc"
          /\ table = handle_ws_CONNECT(mangum, env, << >>, e).table
          /\ created = [c \in ConnIds |->
                           IF c = "abc" THEN initial_scope(mangum.app_ws_path, e)
                           ELSE PyNone]
    /\ phase = [c \in ConnIds |-> IF c = "abc" THEN "OPEN" ELSE "ABSENT"]
    /\ pc = "idle"
    /\ event = NoEvent
    /\ response = NoResponse
    /\ scope = PyNone
    /\ queue = << >>
    /\ received = << >>
    /\ emitted = << >>
    /\ relayLog = << >>
    /\ appRan = FALSE
    /\ lastOp = NoOp
    /\ prePresent = FALSE
    /\ built = NotBuilt
    /\ http = NoHttp
    /\ procs = << >>
    /\ removed = [c \in ConnIds |-> PyNone]

NextCycle ==
    \/ \E e \in HttpEvents : HttpRequest(e)
    \/ HttpReceive
    \/ \E status \in Statuses, headers \in ResponseHeaders : HttpSendStart(status, headers)
    \/ \E chunk \in Chunks, more_body \in BOOLEAN : HttpSendBody(chunk, more_body)
    \/ HttpAppDone
    \/ HttpAppRaise
    \/ \E e \in MessageEvents : WsMessage(e)
    \/ AppReceive /\ http' = http /\ UNCHANGED <<procs, removed>>
    \/ \E outcome \in TransportOutcomes :
          AppSend(outcome) /\ http' = http /\ UNCHANGED <<procs, removed>>
    \/ AppDone /\ http' = http /\ UNCHANGED <<procs, removed>>

SpecCycle == InitCycle /\ [][NextCycle]_vars

---------------------------------------------------------------------------
(* Invocations that run concurrently.  Each is its own process with its    *)
(* own WebSocket and backend client; all they share is the table, and each *)
(* put_item, get_item and delete_item is one atomic step on it.  What an   *)
(* invocation does before its store operation touches nothing shared and   *)
(* is part of that step.                                                   *)

\* the connection id the concurrent invocations are for
RaceId == "abc"

RaceEvents ==
    {e \in ConnectEvents \cup MessageEvents \cup DisconnectEvents : e.connectionId = RaceId}

\* an invocation that has not run yet: its event, its position, what it
\* returned or raised, the scope it restored, what its store operation
\* raised, and how many messages its application has sent
NewProc(e) == [event |-> e, pos |-> "start", response |-> NoResponse, scope |-> PyNone,
               exc |-> NoException, sent |-> 0]

Procs == {1, 2}

\* the scope the create of c's item was given, also after the item's removal
StoredAtConnect(c) == IF created[c] # PyNone THEN created[c] ELSE removed[c]

\* the history after a delete for c: the scope of its item, if it had one,
\* moves from created to removed
Forget(cr, c) == [cr EXCEPT ![c] = PyNone]
Remember(cr, rm, c) == IF cr[c] # PyNone THEN [rm EXCEPT ![c] = cr[c]] ELSE rm

RaceFrame ==
    UNCHANGED <<mangum, env, pc, event, response, scope, queue, received, emitted, relayLog,
                appRan, lastOp, prePresent, phase, ws_config, built, http>>

\* the store operation of invocation i
RaceConnect(i) ==
    LET e == procs[i].event
        r == handle_ws_CONNECT(mangum, env, table, e)
        ok == r.op.op = "create" /\ r.op.exc = NoException
    IN  /\ procs[i].pos = "start"
        /\ e.eventType = "CONNECT"
        /\ table' = r.table
        /\ procs' = [procs EXCEPT ![i].pos = "done", ![i].response = r.response,
                                  ![i].exc = r.op.exc]
        /\ created' = IF ok THEN [created EXCEPT ![e.connectionId] =
                                    initial_scope(mangum.app_ws_path, e)]
                      ELSE created
        /\ UNCHANGED removed
        /\ RaceFrame

RaceDisconnect(i) ==
    LET e == procs[i].event
        r == handle_ws_DISCONNECT(mangum, env, table, e)
    IN  /\ procs[i].pos = "start"
        /\ e.eventType = "DISCONNECT"
        /\ table' = r.table
        /\ procs' = [procs EXCEPT ![i].pos = "done", ![i].response = r.response,
                                  ![i].exc = r.op.exc]
        /\ created' = IF r.op.op = "delete" /\ r.op.exc = NoException
                      THEN Forget(created, e.connectionId) ELSE created
        /\ removed' = IF r.op.op = "delete" /\ r.op.exc = NoException
                      THEN Remember(created, removed, e.connectionId) ELSE removed
        /\ RaceFrame

RaceMessage(i) ==
    LET e == procs[i].event
        r == handle_ws_MESSAGE(mangum, env, table, e)
    IN  /\ procs[i].pos = "start"
        /\ e.eventType = "MESSAGE"
        /\ table' = r.table
        /\ procs' = [procs EXCEPT ![i].pos = IF r.started THEN "cycle" ELSE "done",
                                  ![i].response = r.response,
                                  ![i].scope = r.scope,
                                  ![i].exc = r.op.exc]
        /\ UNCHANGED <<created, removed>>
        /\ RaceFrame

\* the application of invocation i sends a message, which is relayed
RaceSend(i, outcome) ==
    LET c == procs[i].event.connectionId
        r == WebSocket_post_to_connection(table, c, Payload(procs[i].sent + 1), outcome)
    IN  /\ procs[i].pos = "cycle"
        /\ procs[i].sent < MaxSends
        /\ table' = r.table
        /\ procs' = [procs EXCEPT ![i].sent = @ + 1,
                                  ![i].pos = IF r.exc = NoException THEN "cycle" ELSE "done",
                                  ![i].response = IF r.exc = NoException THEN NoResponse
                                                  ELSE Returns(500)]
        /\ created' = IF Gone(outcome) THEN Forget(created, c) ELSE created
        /\ removed' = IF Gone(outcome) THEN Remember(created, removed, c) ELSE removed
        /\ RaceFrame

\* the application of invocation i is done
RaceDone(i) ==
    /\ procs[i].pos = "cycle"
    /\ procs' = [procs EXCEPT ![i].pos = "done", ![i].response = Returns(200)]
    /\ UNCHANGED <<table, created, removed>>
    /\ RaceFrame

\* Two invocations for one connection id, which is absent or was connected
\* before; prePresent says which.
InitRace ==
    /\ mangum = [dynamodb_region |-> PyStr("set"), dynamodb_table_name |-> PyStr("set"),
                 app_ws_path |-> PyStr("/ws")]
    /\ env = [AWS_REGION |-> PyNone, table_exists |-> TRUE]
    /\ ws_config = NoConfig
    /\ \/ /\ table = << >>
          /\ created = [c \in ConnIds |-> PyNone]
          /\ prePresent = FALSE
       \/ \E e \in ConnectEvents :
             /\ e.connectionId = RaceId
             /\ table = handle_ws_CONNECT(mangum, env, << >>, e).table
             /\ created = [c \in ConnIds |->
                              IF c = RaceId THEN initial_scope(mangum.app_ws_path, e)
                              ELSE PyNone]
             /\ prePresent = TRUE
    /\ phase = [c \in ConnIds |-> IF c \in DOMAIN table THEN "OPEN" ELSE "ABSENT"]
    /\ procs \in {[i \in Procs |-> NewProc(IF i = 1 THEN e1 ELSE e2)] :
                    e1 \in RaceEvents, e2 \in RaceEvents}
    /\ pc = "idle"
    /\ event = NoEvent
    /\ response = NoResponse
    /\ scope = PyNone
    /\ queue = << >>
    /\ received = << >>
    /\ emitted = << >>
    /\ relayLog = << >>
    /\ appRan = FALSE
    /\ lastOp = NoOp
    /\ built = NotBuilt
    /\ http = NoHttp
    /\ removed = [c \in ConnIds |-> PyNone]

NextRace ==
    \E i \in Procs :
        \/ RaceConnect(i)
        \/ RaceDisconnect(i)
        \/ RaceMessage(i)
        \/ \E outcome \in TransportOutcomes : RaceSend(i, outcome)
        \/ RaceDone(i)

SpecRace == InitRace /\ [][NextRace]_vars

---------------------------------------------------------------------------
(* One connection id through its CONNECT, MESSAGE and DISCONNECT           *)
(* invocations, one at a time, with the history of what was removed.       *)

\* a step that removes the item of the current connection id records its scope
Removal(c) ==
    /\ removed' = IF created[c] # PyNone /\ created'[c] = PyNone
                  THEN Remember(created, removed, c) ELSE removed
    /\ UNCHANGED <<http, procs>>

InitReuse ==
    /\ mangum = [dynamodb_region |-> PyStr("set"), dynamodb_table_name |-> PyStr("set"),
                 app_ws_path |-> PyStr("/ws")]
    /\ env = [AWS_REGION |-> PyNone, table_exists |-> TRUE]
    /\ ws_config = NoConfig
    /\ InitStore

NextReuse ==
    \/ \E e \in RaceEvents \cap ConnectEvents : Connect(e) /\ Removal(e.connectionId)
    \/ \E e \in RaceEvents \cap MessageEvents : Message(e) /\ Removal(e.connectionId)
    \/ \E e \in RaceEvents \cap DisconnectEvents : Disconnect(e) /\ Removal(e.connectionId)
    \/ AppReceive /\ Removal(event.connectionId)
    \/ \E outcome \in TransportOutcomes : AppSend(outcome) /\ Removal(event.connectionId)
    \/ AppDone /\ Removal(event.connectionId)

SpecReuse == InitReuse /\ [][NextReuse]_vars

---------------------------------------------------------------------------
(* Constructing a WebSocket from a ws_config.                              *)

WsConfigs ==
    {NoConfig} \cup
    [isNone : {FALSE}, backend : BackendTags, table_name : Settings, region_name : Settings]

InitNew ==
    /\ mangum = [dynamodb_region |-> PyNone, dynamodb_table_name |-> PyNone,
                 app_ws_path |-> PyNone]
    /\ env \in [AWS_REGION : Settings, table_exists : BOOLEAN]
    /\ ws_config \in WsConfigs
    /\ InitStore

NewWebSocket ==
    LET r == WebSocket_post_init(ws_config, env.AWS_REGION, env.table_exists)
    IN  /\ ~built.done
        /\ built' = [exc |-> r.exc, backend |-> r.backend, done |-> TRUE]
        /\ UNCHANGED <<mangum, env, table, pc, event, response, scope, queue, received,
                       emitted, relayLog, appRan, lastOp, prePresent, phase, created,
                       ws_config, http, procs, removed>>

NextNew == NewWebSocket

SpecNew == InitNew /\ [][NextNew]_vars

---------------------------------------------------------------------------
(* Properties.  A step taken with pc = "idle" begins an invocation: event' *)
(* is its event and lastOp' the store operation it performed.              *)

\* C1: a create for a connection id that already has an item fails (the
\* conditional put_item raises botocore's ClientError), and the item is still
\* the one the first create stored: the JSON of the scope that create was
\* given, not the scope of the second create.
C1_DuplicateCreateFails ==
    (lastOp.op = "create" /\ prePresent)
        => /\ lastOp.exc = "ClientError"
           /\ lastOp.connection_id \in DOMAIN table
           /\ table[lastOp.connection_id].initial_scope
                = json_dumps(created[lastOp.connection_id])

\* a second create, given another scope than the first, has failed
C1_Witness ==
    /\ lastOp.op = "create"
    /\ prePresent
    /\ lastOp.exc # NoException
    /\ initial_scope(mangum.app_ws_path, event) # created[event.connectionId]

\* C2: a CONNECT event for a connection id that already has a stored scope
\* makes handle_ws return statusCode 500 and leaves the table as it was.
C2_DuplicateConnectReports500 ==
    [][(pc = "idle" /\ event'.eventType = "CONNECT" /\ Configured(mangum, env)
          /\ event'.connectionId \in DOMAIN table)
         => (response' = Returns(500) /\ table' = table)]_vars

\* C3 as stated: the scope a fetch restores equals, in every field, the scope
\* the create of the item was given.
C3_FetchedEqualsCreated ==
    (lastOp.op = "fetch" /\ lastOp.exc = NoException)
        => scope = created[event.connectionId]

\* the header mapping as fetch hands it on: [name bytes, value bytes] pairs in
\* the mapping's order, an empty mapping as it is
HeaderPairs(headers) ==
    IF Len(headers.v) = 0 THEN headers
    ELSE PyList([i \in 1..Len(headers.v) |->
                   PyList(<<PyBytes(headers.v[i][1]), PyBytes(headers.v[i][2].v)>>)])

\* restored is the complete scope s as a fetch restores it: it has the fields
\* of s, in the same order; type, path, raw_path, root_path, scheme and aws are
\* equal to those of s; query_string is that of s encoded to bytes; headers is
\* the header mapping of s as a list of [name bytes, value bytes] pairs (an
\* empty mapping stays an empty mapping); server and client are lists of the
\* items of the tuples of s.
RestoredFrom(restored, s) ==
    /\ s # PyNone
    /\ restored.t = "dict"
    /\ Len(restored.v) = Len(s.v)
    /\ \A i \in 1..Len(s.v) : restored.v[i][1] = s.v[i][1]
    /\ \A k \in {"type", "path", "raw_path", "root_path", "scheme", "aws"} :
          DictGet(restored, k) = DictGet(s, k)
    /\ DictGet(restored, "query_string") = PyBytes(DictGet(s, "query_string").v)
    /\ DictGet(restored, "headers") = HeaderPairs(DictGet(s, "headers"))
    /\ DictGet(restored, "server") = PyList(DictGet(s, "server").v)
    /\ DictGet(restored, "client") = PyList(DictGet(s, "client").v)

\* C3 (amended): the scope a fetch restores is the scope the create was given
\* up to its encoding: the same fields in the same order, with query_string
\* encoded to bytes, headers as a list of [name bytes, value bytes] pairs, and
\* server and client as lists instead of tuples.
C3_RoundTrip ==
    (lastOp.op = "fetch" /\ lastOp.exc = NoException)
        => RestoredFrom(scope, created[event.connectionId])

\* a fetch has restored a scope that was created with headers
C3_Witness ==
    /\ lastOp.op = "fetch"
    /\ lastOp.exc = NoException
    /\ created[event.connectionId] # PyNone
    /\ Len(DictGet(created[event.connectionId], "headers").v) > 0
    /\ DictGet(scope, "scheme") = PyStr("ws")

\* C4: a fetch for a connection id that is ABSENT (never created, or deleted
\* since its last create) raises the connection-not-found WebSocketError and
\* sets no scope.
C4_FetchAbsentFails ==
    (lastOp.op = "fetch" /\ phase[lastOp.connection_id] = "ABSENT")
        => (lastOp.exc = "WebSocketError" /\ scope = PyNone)

\* a fetch has failed for one id while the other id is stored
C4_Witness ==
    /\ lastOp.op = "fetch"
    /\ lastOp.exc = "WebSocketError"
    /\ ~prePresent
    /\ \E c \in ConnIds : c # lastOp.connection_id /\ c \in DOMAIN table

\* C5: delete is idempotent: with the store configured, a DISCONNECT event for
\* a connection id that has no item performs its delete without error, returns
\* statusCode 200 and leaves the table as it was; so does a second DISCONNECT
\* after a first.
C5_DeleteIdempotent ==
    [][(pc = "idle" /\ event'.eventType = "DISCONNECT" /\ Configured(mangum, env)
          /\ event'.connectionId \notin DOMAIN table)
         => /\ lastOp' = Op("delete", event'.connectionId, NoException)
            /\ response' = Returns(200)
            /\ table' = table]_vars

\* a DISCONNECT has completed for an id that had no item, the other id stored
C5_Witness ==
    /\ event.eventType = "DISCONNECT"
    /\ lastOp.op = "delete"
    /\ ~prePresent
    /\ response = Returns(200)
    /\ table # << >>

\* C6: a scope is stored for a connection id exactly when the connection is
\* OPEN by the events so far (a CONNECT for it returned 200, and no DISCONNECT
\* and no relay answered gone since); and a step changes the item of an id only
\* by storing one for an id that had none, in a CONNECT invocation, or by
\* removing it, in a DISCONNECT invocation or a relay answered gone.
C6_StoredIffOpen ==
    /\ [](\A c \in ConnIds : (c \in DOMAIN table) <=> (phase[c] = "OPEN"))
    /\ [][\A c \in ConnIds :
            /\ (c \notin DOMAIN table /\ c \in DOMAIN table')
                 => (pc = "idle" /\ event'.eventType = "CONNECT"
                       /\ event'.connectionId = c /\ response' = Returns(200))
            /\ (c \in DOMAIN table /\ c \notin DOMAIN table')
                 => \/ (pc = "idle" /\ event'.eventType = "DISCONNECT"
                          /\ event'.connectionId = c)
                    \/ (pc = "cycle" /\ event.connectionId = c
                          /\ lastOp'.op = "post_to_connection" /\ Gone(lastOp'.transport))
            /\ (c \in DOMAIN table /\ c \in DOMAIN table') => table'[c] = table[c]]_vars

\* a relay answered gone has removed the scope of one id, the other stays OPEN
C6_Witness ==
    /\ lastOp.op = "post_to_connection"
    /\ Gone(lastOp.transport)
    /\ prePresent
    /\ phase[lastOp.connection_id] = "ABSENT"
    /\ \E c \in ConnIds : phase[c] = "OPEN" /\ c \in DOMAIN table

\* C7: with the store configured, a MESSAGE event for a connection id that is
\* ABSENT makes handle_ws return statusCode 500; the application is not run,
\* nothing is relayed and the table is left as it was.
C7_MessageAbsentReports500 ==
    [][(pc = "idle" /\ event'.eventType = "MESSAGE" /\ Configured(mangum, env)
          /\ phase[event'.connectionId] = "ABSENT")
         => /\ response' = Returns(500)
            /\ pc' = "idle"
            /\ ~appRan'
            /\ relayLog' = << >>
            /\ emitted' = << >>
            /\ table' = table]_vars

\* a MESSAGE for an id that was connected and disconnected has been answered 500
C7_Witness ==
    /\ event.eventType = "MESSAGE"
    /\ lastOp.op = "fetch"
    /\ ~prePresent
    /\ response = Returns(500)
    /\ phase[event.connectionId] = "ABSENT"
    /\ table # << >>

\* C8: when the management API answers a relay with a ClientError of status
\* 410, post_to_connection deletes the stored scope of the connection and
\* returns without raising: the cycle goes on and is not answered with an error.
C8_GoneRelayDeletes ==
    (lastOp.op = "post_to_connection" /\ Gone(lastOp.transport))
        => /\ lastOp.exc = NoException
           /\ lastOp.connection_id \notin DOMAIN table
           /\ response \in {NoResponse, Returns(200)}

\* a relay answered gone has removed a scope that was stored
C8_Witness ==
    /\ lastOp.op = "post_to_connection"
    /\ Gone(lastOp.transport)
    /\ prePresent
    /\ lastOp.exc = NoException
    /\ event.connectionId \notin DOMAIN table

\* C9: when the transport fails a relay with any error other than gone,
\* post_to_connection raises to its caller, the cycle ends there (the
\* application sends nothing more) and the invocation is answered 500.
C9_RelayErrorPropagates ==
    (lastOp.op = "post_to_connection" /\ lastOp.transport.exc # NoException
       /\ ~Gone(lastOp.transport))
        => /\ lastOp.exc # NoException
           /\ pc = "idle"
           /\ response = Returns(500)
           /\ relayLog[Len(relayLog)].transport = lastOp.transport

\* a relay has failed with a ClientError that is not gone, after one that succeeded
C9_Witness ==
    /\ lastOp.op = "post_to_connection"
    /\ lastOp.transport.exc = "ClientError"
    /\ ~Gone(lastOp.transport)
    /\ lastOp.exc = "WebSocketError"
    /\ Len(relayLog) = 2
    /\ pc = "idle"

\* C10: constructing a WebSocket with backend "dynamodb" or "sqlite3" succeeds
\* (the backend itself opening) and binds that backend; any other backend tag
\* raises the configuration error, WebSocketError.
C10_BackendSelection ==
    (built.done /\ ~ws_config.isNone)
        => /\ ws_config.backend = "sqlite3"
                => (built.exc = NoException /\ built.backend = "SQLite3Backend")
           /\ (ws_config.backend = "dynamodb"
                 /\ DynamoDBBackend_post_init(ws_config.table_name, ws_config.region_name,
                                              env.AWS_REGION, env.table_exists) = NoException)
                => (built.exc = NoException /\ built.backend = "DynamoDBBackend")
           /\ ws_config.backend \notin {"sqlite3", "dynamodb"}
                => built.exc = "WebSocketError"

\* C11: handling a WebSocket event requires both a region (dynamodb_region or
\* AWS_REGION) and a table name: when either is missing the invocation fails
\* with the configuration error, the WebSocketError of lines 158-160, and
\* performs no store operation.
C11_BothSettingsRequired ==
    [][(pc = "idle" /\ event'.eventType \in {"CONNECT", "MESSAGE", "DISCONNECT"}
          /\ (~Truthy(mangum.dynamodb_table_name)
                \/ (~Truthy(mangum.dynamodb_region) /\ ~Truthy(env.AWS_REGION))))
         => /\ response' = Raises("WebSocketError")
            /\ lastOp' = NoOp
            /\ table' = table]_vars

\* C12: in a MESSAGE cycle the calls made to the management API are, in order,
\* the messages the application has sent: one call for each message, for the
\* connection of the event, with the data of the message.
C12_RelayedOnceInOrder ==
    /\ Len(relayLog) = Len(emitted)
    /\ \A i \in 1..Len(emitted) :
          /\ relayLog[i].data = emitted[i]
          /\ relayLog[i].connection_id = event.connectionId

\* the application has sent two different messages, both relayed
C12_Witness ==
    /\ Len(emitted) = 2
    /\ emitted[1] # emitted[2]
    /\ relayLog[1].data = "pong"
    /\ relayLog[2].data = "bye"
    /\ relayLog[2].transport.exc = NoException

\* C13: an HTTP cycle that saw the terminal body chunk returns the status and
\* headers of the response start and, as body, the chunks concatenated in the
\* order sent; a cycle whose application completed without a response start
\* returns the protocol error.
C13_HttpResultCollectsResponse ==
    LET n == Len(http.sent)
        Body[i \in 0..n] == IF i <= 1 THEN << >> ELSE Body[i - 1] \o http.sent[i].body
    IN  /\ http.state = "COMPLETE"
             => /\ n >= 2
                /\ http.sent[1].type = "http.response.start"
                /\ \A i \in 2..n : /\ http.sent[i].type = "http.response.body"
                                   /\ http.sent[i].more_body = (i < n)
                /\ http.result.status = http.sent[1].status
                /\ http.result.headers = http.sent[1].headers
                /\ http.result.body = Body[n]
                /\ ~http.result.error
                /\ response = Returns(http.sent[1].status)
        /\ (http.state = "DONE" /\ http.sent = << >>) => http.result.error

C13_Witness ==
    /\ http.state = "COMPLETE"
    /\ Len(http.sent) = 3
    /\ http.sent[1].status = 404
    /\ http.sent[1].headers # << >>
    /\ http.sent[2].body = <<"o", "k">>
    /\ http.sent[3].body = <<"!">>
    /\ http.result.body = <<"o", "k", "!">>

\* the two concurrent invocations have these event types, in either order
Racing(t1, t2) ==
    \/ procs[1].event.eventType = t1 /\ procs[2].event.eventType = t2
    \/ procs[1].event.eventType = t2 /\ procs[2].event.eventType = t1

BothDone == \A i \in Procs : procs[i].pos = "done"

\* invocation i created the item and answered 200
Succeeded(i) == procs[i].exc = NoException /\ procs[i].response = Returns(200)

\* once both CONNECT invocations are done, exactly one has succeeded, the
\* create of the other has failed, and the item is the winner's scope
OneCreateWins ==
    \E i \in Procs :
        /\ Succeeded(i)
        /\ \A j \in Procs \ {i} : procs[j].exc # NoException /\ ~Succeeded(j)
        /\ RaceId \in DOMAIN table
        /\ table[RaceId].initial_scope =
              json_dumps(initial_scope(mangum.app_ws_path, procs[i].event))

\* C14 as stated: whenever two CONNECT invocations for one connection id have
\* run concurrently, exactly one create succeeded, the other failed, and the
\* stored scope is that of the one that succeeded.
C14_ExactlyOneCreateSucceeds ==
    (procs # << >> /\ Racing("CONNECT", "CONNECT") /\ BothDone) => OneCreateWins

\* C14 (amended): when two CONNECT invocations run concurrently for a
\* connection id that has no stored scope, then in every interleaving exactly
\* one create succeeds and the other fails, and the stored scope afterwards is
\* the scope of the one that succeeded.
C14_OneCreateSucceedsWhenAbsent ==
    (procs # << >> /\ Racing("CONNECT", "CONNECT") /\ BothDone /\ ~prePresent)
        => OneCreateWins

\* the second of two different CONNECT events won the race
C14_Witness ==
    /\ procs # << >>
    /\ Racing("CONNECT", "CONNECT")
    /\ BothDone
    /\ ~prePresent
    /\ procs[1].event # procs[2].event
    /\ Succeeded(2)
    /\ procs[1].exc = "ClientError"
    /\ table[RaceId].initial_scope =
          json_dumps(initial_scope(mangum.app_ws_path, procs[2].event))

\* C15: when a MESSAGE and a DISCONNECT invocation race for a connection id
\* that is OPEN, the MESSAGE's fetch either restores the complete scope stored
\* at CONNECT or fails with the connection-not-found WebSocketError (and the
\* invocation answers 500 with no scope); once both are done the table has no
\* item for the id.
C15_FetchCompleteOrNotFound ==
    (procs # << >> /\ Racing("MESSAGE", "DISCONNECT") /\ prePresent)
        => /\ \A i \in Procs :
                 (procs[i].event.eventType = "MESSAGE" /\ procs[i].pos # "start")
                    => \/ /\ procs[i].exc = NoException
                          /\ RestoredFrom(procs[i].scope, StoredAtConnect(RaceId))
                       \/ /\ procs[i].exc = "WebSocketError"
                          /\ procs[i].scope = PyNone
                          /\ procs[i].response = Returns(500)
           /\ BothDone => RaceId \notin DOMAIN table

\* the delete ran while the cycle of the MESSAGE, whose fetch had succeeded,
\* was still running
C15_Witness ==
    /\ procs # << >>
    /\ prePresent
    /\ procs[1].event.eventType = "MESSAGE"
    /\ procs[2].event.eventType = "DISCONNECT"
    /\ procs[1].pos = "cycle"
    /\ procs[2].pos = "done"
    /\ procs[1].scope # PyNone
    /\ RaceId \notin DOMAIN table

\* the step begins a MESSAGE invocation for a connection id that has an item
MessageOnOpen ==
    /\ pc = "idle"
    /\ event'.eventType = "MESSAGE"
    /\ event'.connectionId \in DOMAIN table

\* the step is one of the cycle of a MESSAGE invocation and no relay fails in it
CycleStepRelayed ==
    /\ pc = "cycle"
    /\ \/ relayLog' = relayLog
       \/ relayLog'[Len(relayLog')].transport.exc = NoException

\* the step begins a MESSAGE invocation right after a MESSAGE invocation for
\* the same id that restored a scope and ended with every relay successful
NextMessage ==
    /\ pc = "idle"
    /\ event.eventType = "MESSAGE"
    /\ scope # PyNone
    /\ response = Returns(200)
    /\ \A i \in 1..Len(relayLog) : relayLog[i].transport.exc = NoException
    /\ event'.eventType = "MESSAGE"
    /\ event'.connectionId = event.connectionId

\* C16: a MESSAGE invocation for an OPEN connection whose relays all succeed
\* leaves the table as it was, in its fetch and in every step of its cycle;
\* a MESSAGE that follows it for the same id restores the same scope again,
\* which is the scope stored at CONNECT.
C16_MessageLeavesStore ==
    [][/\ (MessageOnOpen \/ CycleStepRelayed) => table' = table
       /\ NextMessage => /\ scope' = scope
                         /\ RestoredFrom(scope', created'[event'.connectionId])
                         /\ lastOp'.exc = NoException]_vars

\* a MESSAGE invocation has ended after two successful relays, and the item is
\* the one stored at CONNECT
C16_Witness ==
    /\ pc = "idle"
    /\ event.eventType = "MESSAGE"
    /\ response = Returns(200)
    /\ Len(relayLog) = 2
    /\ \A i \in 1..2 : relayLog[i].transport.exc = NoException
    /\ RestoredFrom(scope, created[event.connectionId])
    /\ table[event.connectionId].initial_scope = json_dumps(created[event.connectionId])

\* C17: while the application runs, the messages it has received followed by
\* those still queued are exactly the messages of the invocation, in order: for
\* a WebSocket MESSAGE the connection-open message and then the data message
\* with the event's body, for HTTP the one request message; so the queue is
\* not empty until the application has received them all.
C17_InboundQueuedInOrder ==
    LET all == received \o queue
    IN  /\ pc = "cycle"
             => /\ Len(all) = 2
                /\ all[1].type = "websocket.connect"
                /\ all[2].type = "websocket.receive"
                /\ all[2].text = event.body
                /\ all[2].path = mangum.app_ws_path
                /\ Len(received) < 2 => queue # << >>
        /\ pc = "http"
             => /\ Len(all) = 1
                /\ all[1].type = "http.request"
                /\ all[1].body.t = "bytes"
                /\ all[1].body.v = (IF http.event.body = PyNone THEN ""
                                    ELSE IF http.event.isBase64Encoded THEN "hi"
                                    ELSE http.event.body.v)
                /\ ~all[1].more_body
                /\ Len(received) < 1 => queue # << >>

\* the application of a MESSAGE invocation has received the connection-open
\* message and then the data message
C17_Witness ==
    /\ pc = "cycle"
    /\ queue = << >>
    /\ Len(received) = 2
    /\ received[1].type = "websocket.connect"
    /\ received[2].type = "websocket.receive"
    /\ received[2].text = "ping"

\* C18: the application has run only in a MESSAGE invocation whose fetch
\* restored a scope; in a CONNECT invocation, a DISCONNECT invocation and a
\* MESSAGE invocation whose setup failed it has not run: it has received
\* nothing and sent nothing, and nothing was relayed.
C18_AppRunsOnlyAfterFetch ==
    /\ appRan => /\ event.eventType = "MESSAGE"
                 /\ prePresent
                 /\ scope # PyNone
    /\ (event.eventType \in {"CONNECT", "DISCONNECT"} \/ scope = PyNone)
          => /\ ~appRan
             /\ pc = "idle"
             /\ queue = << >>
             /\ received = << >>
             /\ emitted = << >>
             /\ relayLog = << >>

\* a MESSAGE for an id without an item has answered 500 without running the
\* application, while the other id is connected
C18_Witness ==
    /\ event.eventType = "MESSAGE"
    /\ lastOp.op = "fetch"
    /\ lastOp.exc = "WebSocketError"
    /\ response = Returns(500)
    /\ ~appRan
    /\ relayLog = << >>
    /\ DOMAIN table # {}

\* the connection id of the invocation a step belongs to
StepId == IF pc = "idle" THEN event'.connectionId ELSE event.connectionId

\* C19: a step of an invocation for connection id c (its create, fetch or
\* delete, or a relay with its gone-triggered delete) leaves every other id as
\* it was: an id without an item still has none, and an item is unchanged.
C19_OtherIdsUntouched ==
    [][\A c2 \in ConnIds \ {StepId} :
          /\ (c2 \in DOMAIN table') = (c2 \in DOMAIN table)
          /\ c2 \in DOMAIN table => table'[c2] = table[c2]]_vars

\* a relay answered 410 has removed the item of its connection id, and the
\* other id still has the item its CONNECT stored
C19_Witness ==
    /\ lastOp.op = "post_to_connection"
    /\ lastOp.transport.status = StatusGone
    /\ lastOp.connection_id \notin DOMAIN table
    /\ \E c2 \in ConnIds \ {lastOp.connection_id} :
          /\ c2 \in DOMAIN table
          /\ table[c2].initial_scope = json_dumps(created[c2])

\* C20: once the item of connection id c has been removed, by a DISCONNECT or
\* by the delete a relay answered 410 triggers, a CONNECT for c succeeds and
\* stores the scope of that CONNECT; a MESSAGE after it restores the scope of
\* that CONNECT, and not the scope removed before when the two differ.
C20_IdReusableAfterCleanup ==
    /\ [][(/\ pc = "idle"
            /\ event'.eventType = "CONNECT"
            /\ removed[event'.connectionId] # PyNone
            /\ created[event'.connectionId] = PyNone)
           => /\ response' = Returns(200)
              /\ event'.connectionId \in DOMAIN table'
              /\ table'[event'.connectionId].initial_scope =
                    json_dumps(initial_scope(mangum.app_ws_path, event'))
              /\ created'[event'.connectionId] = initial_scope(mangum.app_ws_path, event')]_vars
    /\ [](\A c \in ConnIds :
            (/\ lastOp.op = "fetch"
             /\ lastOp.exc = NoException
             /\ lastOp.connection_id = c
             /\ removed[c] # PyNone)
            => /\ RestoredFrom(scope, created[c])
               /\ created[c] # removed[c] => ~RestoredFrom(scope, removed[c]))

\* a MESSAGE has restored the scope of the second CONNECT of its id, which
\* differs from the scope removed after the first
C20_Witness ==
    /\ lastOp.op = "fetch"
    /\ lastOp.exc = NoException
    /\ removed[lastOp.connection_id] # PyNone
    /\ created[lastOp.connection_id] # removed[lastOp.connection_id]
    /\ RestoredFrom(scope, created[lastOp.connection_id])

====
